---- MODULE Spec2Model ----
(***************************************************************************)
(* Model of the face-recognition attendance system:                        *)
(*   utils/face_utils.py  FaceRecognitionSystem  (gallery + reconciliation)*)
(*   utils/db_utils.py    AttendanceManager      (attendance CSV)          *)
(*   app.py               upload_file            (the HTTP upload handler) *)
(*                                                                         *)
(* Encoding conventions                                                    *)
(*  - A face embedding is a point on a line, in thousandths; the distance  *)
(*    of the face_recognition library is the absolute difference, so a     *)
(*    distance of 0.4 is the integer 400 and a confidence score 0.6 is 600.*)
(*  - A face location is the tuple <<top, right, bottom, left>>.           *)
(*  - A text that the code builds with an f-string is the tuple of its     *)
(*    parts: "Unknown Person 2" is <<"Unknown Person", "2">>, "High (0.90)"*)
(*    is <<"High", 90>> (the score rounded to hundredths).                 *)
(*  - A file name or a student name is the tuple of its tokens:            *)
(*    "Alice_A.jpg" is <<"Alice", "_", "A", ".", "jpg">>.                  *)
(*  - A value that may be None is a record with a boolean field `none`.    *)
(***************************************************************************)
EXTENDS Integers, Sequences, FiniteSets, TLC

VARIABLES
    known_face_encodings,   \* FaceRecognitionSystem.known_face_encodings
    known_face_names,       \* FaceRecognitionSystem.known_face_names
    last_known_images,      \* FaceRecognitionSystem._last_known_images
    dataset,                \* the directory dataset/ on disk
    encodings_file,         \* the file models/encodings.pkl on disk
    attendance_file,        \* the rows of attendance/attendance.csv
    photo,                  \* the class photo of the last call
    attendance_results,     \* what process_class_photo returned last; in the
                            \* report and store specifications the records in hand
    flash,                  \* what upload_file reported last
    pc,                     \* "idle", "called" / "returned" during a request,
                            \* "done" after a direct call of a method
    ret,                    \* what the last call returned or put in its response
    rebuild,                \* the position and locals of a running create_encodings
    loaded_images           \* history: the image names of dataset/ when the
                            \* gallery was last loaded or rebuilt

vars == <<known_face_encodings, known_face_names, last_known_images, dataset,
          encodings_file, attendance_file, photo, attendance_results, flash, pc,
          ret, rebuild, loaded_images>>

(***************************************************************************)
(* Bounds of the model.                                                    *)
(***************************************************************************)
MaxDet == 2          \* detections in one class photo
MaxFiles == 2        \* reference images behind a gallery (roster specification)
MaxUploadDet == 1    \* detections in one uploaded photo (system specification)
MaxRows == 1         \* uploads are accepted while the CSV has fewer rows
MaxRecords == 3      \* records in the attendance data given to a report
MaxSaved == 3        \* rosters are saved while the CSV has fewer rows (store)

(***************************************************************************)
(* Program constants.                                                      *)
(***************************************************************************)
CoarseTolerance == 500      \* tolerance=0.5 passed to compare_faces
AcceptanceFloor == 600      \* confidence_score > 0.6
DedupRadius     == 50       \* distance < 50

StatusOrder == <<"Present", "Absent", "Unknown", "Error">>

BadEncoding == 0 - 1        \* an embedding the comparison primitive rejects

(***************************************************************************)
(* Small helpers.                                                          *)
(***************************************************************************)
Abs(x) == IF x < 0 THEN 0 - x ELSE x

Range(s) == {s[k] : k \in 1..Len(s)}

SeqsUpTo(S, n) == UNION {[1..m -> S] : m \in 0..n}

\* tuple.index(x): the first position of x
IndexOf(t, x) == CHOOSE k \in 1..Len(t) : t[k] = x /\ \A j \in 1..(k-1) : t[j] # x

(***************************************************************************)
(* The external comparison primitives (face_recognition library).          *)
(***************************************************************************)
\* face_recognition.face_distance(known, e): one distance per gallery entry
face_distance(encs, e) == [k \in 1..Len(encs) |-> Abs(encs[k] - e)]

\* face_recognition.compare_faces(known, e, tolerance): distance <= tolerance
compare_faces(encs, e, tol) == [k \in 1..Len(encs) |-> face_distance(encs, e)[k] <= tol]

\* numpy argmin: the first index of the minimum
argmin(d) == CHOOSE k \in 1..Len(d) :
                 /\ \A j \in 1..Len(d) : d[k] <= d[j]
                 /\ \A j \in 1..(k-1) : d[j] > d[k]

\* the comparison raises on a malformed embedding
CompareRaises(e) == e = BadEncoding

\* f"{x:.2f}" of a score in thousandths: the score in hundredths
Fmt2(score) == (score + 5) \div 10

(***************************************************************************)
(* process_class_photo: duplicate test on the box centres.                 *)
(***************************************************************************)
Center(loc) == <<(loc[1] + loc[3]) \div 2, (loc[2] + loc[4]) \div 2>>

\* the square of `distance`; distance < 50 iff its square < 50 * 50
CenterDistSq(l1, l2) ==
    LET c1 == Center(l1)
        c2 == Center(l2)
    IN  (c1[1] - c2[1]) * (c1[1] - c2[1]) + (c1[2] - c2[2]) * (c1[2] - c2[2])

TooClose_Inclusive(l1, l2) == CenterDistSq(l1, l2) <= DedupRadius * DedupRadius

TooClose(l1, l2) == CenterDistSq(l1, l2) < DedupRadius * DedupRadius

is_duplicate(loc, processed_faces) ==
    \E k \in 1..Len(processed_faces) : TooClose(loc, processed_faces[k])

(***************************************************************************)
(* process_class_photo: one iteration of the loop over the detected faces. *)
(* st is the triple of the locals attendance_results, recognized_students  *)
(* and processed_faces; i is the 1-based position of the face.             *)
(***************************************************************************)
Rec(n, s, c, l) == [name |-> n, status |-> s, confidence |-> c, face_location |-> l]

NoLocation == <<>>

ErrorRecord(i, loc) == Rec(<<"Error", ToString(i)>>, "Error", <<"N/A">>, loc)

\* MatchFace without recognized_students.append(student_name)
MatchFace_NotSeen(names, encs, face, i, st) ==
    LET d     == face_distance(encs, face.enc)
        best  == argmin(d)
        score == 1000 - d[best]
    IN  IF best > Len(names)
        THEN [st EXCEPT !.results = Append(@, ErrorRecord(i, face.loc))]
        ELSE IF score > AcceptanceFloor
        THEN [results    |-> Append(st.results,
                                Rec(names[best], "Present", <<"High", Fmt2(score)>>, face.loc)),
              recognized |-> st.recognized,
              processed  |-> Append(st.processed, face.loc)]
        ELSE [st EXCEPT !.results = Append(@,
                                Rec(names[best], "Unknown", <<"Low", Fmt2(score)>>, face.loc))]

\* MatchFace accepting confidence_score >= 0.6
MatchFace_FloorInclusive(names, encs, face, i, st) ==
    LET d     == face_distance(encs, face.enc)
        best  == argmin(d)
        score == 1000 - d[best]
    IN  IF best > Len(names)
        THEN [st EXCEPT !.results = Append(@, ErrorRecord(i, face.loc))]
        ELSE IF score >= AcceptanceFloor
        THEN [results    |-> Append(st.results,
                                Rec(names[best], "Present", <<"High", Fmt2(score)>>, face.loc)),
              recognized |-> Append(st.recognized, names[best]),
              processed  |-> Append(st.processed, face.loc)]
        ELSE [st EXCEPT !.results = Append(@,
                                Rec(names[best], "Unknown", <<"Low", Fmt2(score)>>, face.loc))]

\* MatchFace marking a low-confidence match as seen
MatchFace_LowSeen(names, encs, face, i, st) ==
    LET d     == face_distance(encs, face.enc)
        best  == argmin(d)
        score == 1000 - d[best]
    IN  IF best > Len(names)
        THEN [st EXCEPT !.results = Append(@, ErrorRecord(i, face.loc))]
        ELSE IF score > AcceptanceFloor
        THEN [results    |-> Append(st.results,
                                Rec(names[best], "Present", <<"High", Fmt2(score)>>, face.loc)),
              recognized |-> Append(st.recognized, names[best]),
              processed  |-> Append(st.processed, face.loc)]
        ELSE [st EXCEPT !.results = Append(@,
                                Rec(names[best], "Unknown", <<"Low", Fmt2(score)>>, face.loc)),
                        !.recognized = Append(@, names[best])]

MatchFace(names, encs, face, i, st) ==
    LET d     == face_distance(encs, face.enc)
        best  == argmin(d)
        score == 1000 - d[best]
    IN  IF best > Len(names)
        THEN [st EXCEPT !.results = Append(@, ErrorRecord(i, face.loc))]
        ELSE IF score > AcceptanceFloor
        THEN [results    |-> Append(st.results,
                                Rec(names[best], "Present", <<"High", Fmt2(score)>>, face.loc)),
              recognized |-> Append(st.recognized, names[best]),
              processed  |-> Append(st.processed, face.loc)]
        ELSE [st EXCEPT !.results = Append(@,
                                Rec(names[best], "Unknown", <<"Low", Fmt2(score)>>, face.loc))]

\* the loop body remembering the box of a face whose comparison raised
ProcessFace_ErrorSeen(names, encs, face, i, st) ==
    IF is_duplicate(face.loc, st.processed) THEN st
    ELSE IF CompareRaises(face.enc)
    THEN [st EXCEPT !.results = Append(@, ErrorRecord(i, face.loc)),
                    !.processed = Append(@, face.loc)]
    ELSE IF \E k \in 1..Len(encs) : compare_faces(encs, face.enc, CoarseTolerance)[k]
    THEN MatchFace(names, encs, face, i, st)
    ELSE [st EXCEPT !.results = Append(@,
                        Rec(<<"Unknown Person", ToString(i)>>, "Unknown", <<"Low">>, face.loc))]

ProcessFace(names, encs, face, i, st) ==
    IF is_duplicate(face.loc, st.processed) THEN st
    ELSE IF CompareRaises(face.enc)
    THEN [st EXCEPT !.results = Append(@, ErrorRecord(i, face.loc))]
    ELSE IF \E k \in 1..Len(encs) : compare_faces(encs, face.enc, CoarseTolerance)[k]
    THEN MatchFace(names, encs, face, i, st)
    ELSE [st EXCEPT !.results = Append(@,
                        Rec(<<"Unknown Person", ToString(i)>>, "Unknown", <<"Low">>, face.loc))]

RECURSIVE FaceLoop(_, _, _, _, _)
FaceLoop(names, encs, faces, i, st) ==
    IF i > Len(faces) THEN st
    ELSE FaceLoop(names, encs, faces, i + 1, ProcessFace(names, encs, faces[i], i, st))

(***************************************************************************)
(* process_class_photo: the Absent completion and the final sort.          *)
(***************************************************************************)
\* the Absent completion testing only the first recognized student
MarkAbsent_FirstOnly(names, recognized, k, results) ==
    LET Missing(n) == recognized = <<>> \/ n # recognized[1]
        idx == [j \in 1..Len(names) |-> j]
        Sel(j) == j >= k /\ Missing(names[j])
        sel == SelectSeq(idx, Sel)
    IN  results \o [j \in 1..Len(sel) |-> Rec(names[sel[j]], "Absent", <<"N/A">>, NoLocation)]

RECURSIVE MarkAbsent(_, _, _, _)
MarkAbsent(names, recognized, k, results) ==
    IF k > Len(names) THEN results
    ELSE MarkAbsent(names, recognized, k + 1,
            IF names[k] \in Range(recognized) THEN results
            ELSE Append(results, Rec(names[k], "Absent", <<"N/A">>, NoLocation)))

\* the sort key with Absent and Unknown exchanged
SortKey_UnknownFirst(r) ==
    IndexOf(<<"Present", "Unknown", "Absent", "Error">>, r.status)

SortKey(r) == IndexOf(StatusOrder, r.status)

\* list.sort(key=...) is stable: insert each record behind the records whose
\* key is not larger
RECURSIVE InsertSorted(_, _)
InsertSorted(sorted, r) ==
    IF sorted = <<>> THEN <<r>>
    ELSE IF SortKey(sorted[Len(sorted)]) <= SortKey(r) THEN Append(sorted, r)
    ELSE Append(InsertSorted(SubSeq(sorted, 1, Len(sorted) - 1), r), sorted[Len(sorted)])

RECURSIVE SortResults(_)
SortResults(rs) ==
    IF rs = <<>> THEN <<>>
    ELSE InsertSorted(SortResults(SubSeq(rs, 1, Len(rs) - 1)), rs[Len(rs)])

(***************************************************************************)
(* process_class_photo as a whole.                                         *)
(***************************************************************************)
None == [none |-> TRUE, results |-> <<>>]

Some(rs) == [none |-> FALSE, results |-> rs]

\* the locals of a call that keeps the boxes accepted in the previous call
EmptyLocals_Carried ==
    [results |-> <<>>, recognized |-> <<>>,
     processed |-> LET Acc(r) == r.status = "Present"
                       acc == SelectSeq(attendance_results.results, Acc)
                   IN  [k \in 1..Len(acc) |-> acc[k].face_location]]

EmptyLocals == [results |-> <<>>, recognized |-> <<>>, processed |-> <<>>]

\* process_class_photo without the test for an empty gallery
process_class_photo_NoGalleryTest(names, encs, p) ==
    IF ~p.readable THEN None
    ELSE IF p.faces = <<>> THEN None
    ELSE LET st == FaceLoop(names, encs, p.faces, 1, EmptyLocals)
         IN  Some(SortResults(MarkAbsent(names, st.recognized, 1, st.results)))

process_class_photo(names, encs, p) ==
    IF ~p.readable THEN None                  \* outer except: return None
    ELSE IF p.faces = <<>> THEN None          \* if not face_locations
    ELSE IF encs = <<>> THEN None             \* if not self.known_face_encodings
    ELSE LET st == FaceLoop(names, encs, p.faces, 1, EmptyLocals)
         IN  Some(SortResults(MarkAbsent(names, st.recognized, 1, st.results)))

(***************************************************************************)
(* The dataset directory and the reference images.                         *)
(* A file is [name, readable, faces]: the tokens of its name, whether      *)
(* load_image_file succeeds on it, and the embeddings face_encodings finds *)
(* in it.                                                                  *)
(***************************************************************************)
File(n, r, f) == [name |-> n, readable |-> r, faces |-> f]

FileUniverse ==
    { File(<<"Alice", "_", "A", ".", "jpg">>, TRUE,  <<0, 700>>),
      File(<<"Alice", " ", "A", ".", "PNG">>, TRUE,  <<50>>),
      File(<<"Bob", ".", "jpeg">>,            TRUE,  <<1000>>),
      File(<<"blank", ".", "gif">>,           TRUE,  <<>>),
      File(<<"broken", ".", "jpg">>,          FALSE, <<>>),
      File(<<"notes", ".", "txt">>,           TRUE,  <<>>) }

\* the files the dataset directory holds in the system specification
SystemFiles ==
    { File(<<"Alice", "_", "A", ".", "jpg">>, TRUE, <<0, 700>>),
      File(<<"blank", ".", "gif">>,           TRUE, <<>>),
      File(<<"notes", ".", "txt">>,           TRUE, <<>>) }

NoDataset == [exists |-> FALSE, files |-> {}]

\* str.lower() on the tokens that occur
Lower(tok) == IF tok = "PNG" THEN "png" ELSE tok

ImageExtensions == {"png", "jpg", "jpeg", "gif"}

\* f.lower().endswith(('.png', '.jpg', '.jpeg', '.gif'))
IsImageFile(f) ==
    /\ Len(f.name) >= 2
    /\ f.name[Len(f.name) - 1] = "."
    /\ Lower(f.name[Len(f.name)]) \in ImageExtensions

\* image_file.rsplit('.', 1)[0].replace('_', ' ')
student_name(n) ==
    LET dots == {k \in 1..Len(n) : n[k] = "."}
        cut  == IF dots = {} THEN Len(n) + 1
                ELSE CHOOSE k \in dots : \A j \in dots : j <= k
        stem == SubSeq(n, 1, cut - 1)
    IN  [k \in 1..Len(stem) |-> IF stem[k] = "_" THEN " " ELSE stem[k]]

\* os.listdir: the files of the directory in an order the file system picks
Listings(ds) ==
    {l \in [1..Cardinality(ds.files) -> ds.files] : Range(l) = ds.files}

\* the names of the image files of the directory, as a set
ImageNames(ds) == {f.name : f \in {g \in ds.files : IsImageFile(g)}}

(***************************************************************************)
(* The snapshot file models/encodings.pkl.                                 *)
(***************************************************************************)
NoFile == [state |-> "absent", encodings |-> <<>>, names |-> <<>>]

Unreadable == [state |-> "unreadable", encodings |-> <<>>, names |-> <<>>]

Pickled(encs, names) == [state |-> "pickled", encodings |-> encs, names |-> names]

\* what a write of the snapshot can do: succeed, fail before the file is
\* opened, or fail after open(..., 'wb') has truncated it
WriteOutcomes == {"ok", "denied", "torn"}

\* save_encodings: the file after the call
save_encodings(encs, names, file, w) ==
    IF w = "ok" THEN Pickled(encs, names)
    ELSE IF w = "torn" THEN Unreadable
    ELSE file

(***************************************************************************)
(* create_encodings: the gallery and the snapshot after a rebuild.         *)
(* A gallery state is [encodings, names, file].                            *)
(***************************************************************************)
\* the loop over the image files giving up at the first image without an
\* embedding
EncodeImages_StopAtError(image_files, k, g) ==
    LET Bad(j) == ~image_files[j].readable \/ image_files[j].faces = <<>>
        bad == {j \in 1..Len(image_files) : Bad(j)}
        n == IF bad = {} THEN Len(image_files)
             ELSE (CHOOSE j \in bad : \A i \in bad : j <= i) - 1
    IN  [g EXCEPT !.encodings = [j \in 1..n |-> image_files[j].faces[1]],
                  !.names = [j \in 1..n |-> student_name(image_files[j].name)]]

\* the loop over the image files appending a name for every readable image,
\* with or without a face
EncodeImages_NameEveryImage(image_files, k, g) ==
    LET Seen(f) == f.readable
        Face(f) == f.readable /\ f.faces # <<>>
        seen == SelectSeq(image_files, Seen)
        face == SelectSeq(image_files, Face)
    IN  [g EXCEPT !.encodings = [j \in 1..Len(face) |-> face[j].faces[1]],
                  !.names = [j \in 1..Len(seen) |-> student_name(seen[j].name)]]

RECURSIVE EncodeImages(_, _, _)
EncodeImages(image_files, k, g) ==
    IF k > Len(image_files) THEN g
    ELSE LET f == image_files[k]
         IN  EncodeImages(image_files, k + 1,
                IF f.readable /\ f.faces # <<>>
                THEN [g EXCEPT !.encodings = Append(@, f.faces[1]),
                               !.names = Append(@, student_name(f.name))]
                ELSE g)

create_encodings(ds, listing, file, w) ==
    LET empty       == [encodings |-> <<>>, names |-> <<>>, file |-> file]
        image_files == SelectSeq(listing, IsImageFile)
    IN  IF ~ds.exists THEN empty
        ELSE IF image_files = <<>> THEN empty
        ELSE LET g == EncodeImages(image_files, 1, empty)
             IN  [g EXCEPT !.file = save_encodings(g.encodings, g.names, file, w)]

\* load_encodings leaving the gallery empty when the snapshot cannot be read
load_encodings_NoFallback(ds, listing, file, w) ==
    IF file.state = "pickled"
    THEN [encodings |-> file.encodings, names |-> file.names, file |-> file]
    ELSE [encodings |-> <<>>, names |-> <<>>, file |-> file]

\* load_encodings: read the snapshot, rebuild when that fails
load_encodings(ds, listing, file, w) ==
    IF file.state = "pickled"
    THEN [encodings |-> file.encodings, names |-> file.names, file |-> file]
    ELSE create_encodings(ds, listing, file, w)

\* initialize_system: load when the snapshot exists, else rebuild
initialize_system(ds, listing, file, w) ==
    IF file.state # "absent" THEN load_encodings(ds, listing, file, w)
    ELSE create_encodings(ds, listing, file, w)

(***************************************************************************)
(* auto_reload_encodings / check_and_reload_encodings.  The result is the  *)
(* gallery state, the remembered file set and the returned boolean.        *)
(***************************************************************************)
Unset == [set |-> FALSE, images |-> {}]

Remembered(S) == [set |-> TRUE, images |-> S]

check_and_reload_encodings(g, last, ds, listing, w) ==
    IF ~ds.exists THEN [g |-> g, last |-> last, reloaded |-> FALSE]
    ELSE IF last.set /\ ImageNames(ds) # last.images
    THEN [g |-> create_encodings(ds, listing, g.file, w),
          last |-> Remembered(ImageNames(ds)), reloaded |-> TRUE]
    ELSE IF last.set THEN [g |-> g, last |-> last, reloaded |-> FALSE]
    ELSE [g |-> g, last |-> Remembered(ImageNames(ds)), reloaded |-> FALSE]

\* a return value (or the content of a response) and the call it belongs to
NoReturn == [op |-> "none", value |-> FALSE]

Returned(op, v) == [op |-> op, value |-> v]

\* no create_encodings is running
NoRebuild == [at |-> "idle", files |-> <<>>, k |-> 0]

Gallery == [encodings |-> known_face_encodings, names |-> known_face_names,
            file |-> encodings_file]

(***************************************************************************)
(* The inputs: class photos.  A photo is [readable, faces]; a face is      *)
(* [loc, enc], what face_locations and face_encodings return for it.       *)
(* The locations have the centres (10,10), (10,59), (40,50) and (10,110):  *)
(* pairs of them are 49, 50, 51 and 100 pixels apart.                      *)
(***************************************************************************)
DetLocations ==
    { <<0, 20, 20, 0>>, <<0, 69, 21, 49>>, <<30, 60, 50, 40>>, <<0, 120, 20, 100>> }

DetEncodings == {100, 400, 500, 501, 900, BadEncoding}

Detections == [loc : DetLocations, enc : DetEncodings]

UnreadablePhoto == [readable |-> FALSE, faces |-> <<>>]

NoFacesPhoto == [readable |-> TRUE, faces |-> <<>>]

Photos ==
    {[readable |-> TRUE, faces |-> f] : f \in SeqsUpTo(Detections, MaxDet)}
        \cup {UnreadablePhoto}

(***************************************************************************)
(* Specification SpecRoster: one call of process_class_photo, for every    *)
(* gallery that a rebuild produces from reference images with a face and   *)
(* every class photo.                                                      *)
(***************************************************************************)
FaceFiles == {f \in FileUniverse : IsImageFile(f) /\ f.readable /\ f.faces # <<>>}

InitRoster ==
    \E fs \in SUBSET FaceFiles :
      /\ Cardinality(fs) <= MaxFiles
      /\ dataset = [exists |-> TRUE, files |-> fs]
      /\ \E l \in Listings(dataset) :
            LET g == create_encodings(dataset, l, NoFile, "ok")
            IN  /\ known_face_encodings = g.encodings
                /\ known_face_names = g.names
                /\ encodings_file = g.file
      /\ last_known_images = Unset
      /\ attendance_file = <<>>
      /\ photo \in Photos
      /\ attendance_results = None
      /\ flash = "none"
      /\ pc = "called"
      /\ ret = NoReturn
      /\ rebuild = NoRebuild
      /\ loaded_images = Remembered(ImageNames(dataset))

ProcessClassPhoto ==
    /\ pc = "called"
    /\ pc' = "returned"
    /\ attendance_results' = process_class_photo(known_face_names, known_face_encodings, photo)
    /\ UNCHANGED <<known_face_encodings, known_face_names, last_known_images,
                   dataset, encodings_file, attendance_file, photo, flash,
                   ret, rebuild, loaded_images>>

NextRoster == ProcessClassPhoto

SpecRoster == InitRoster /\ [][NextRoster]_vars

(***************************************************************************)
(* AttendanceManager.save_attendance: one CSV row per record, appended.    *)
(* A row is [date, name, status, confidence]; the Timestamp column, on     *)
(* which nothing depends, is left out.  The write succeeds or fails as a   *)
(* whole; the result is the rows of the file and the returned boolean.     *)
(***************************************************************************)
Row(date, r) == [date |-> date, name |-> r.name, status |-> r.status,
                 confidence |-> r.confidence]

save_attendance(rows, date, results, w) ==
    IF w = "ok"
    THEN [rows |-> rows \o [k \in 1..Len(results) |-> Row(date, results[k])],
          ok |-> TRUE]
    ELSE [rows |-> rows, ok |-> FALSE]

(***************************************************************************)
(* upload_file.  A request is [kind, photo]: kind "missing" has no file or *)
(* an empty file name, "bad_type" a file name that allowed_file rejects,   *)
(* "image" an accepted upload whose content is photo.                      *)
(***************************************************************************)
\* `if attendance_results:` is false for None and for an empty list
Truthy(res) == ~res.none /\ res.results # <<>>

\* dict.get(key, default)
Get(d, key, default) == IF key \in DOMAIN d THEN d[key] ELSE default

EmptyDict == <<>>

\* the counts of the success message, read from the 'summary_info' entry of
\* the first record
MessageCounts(results) ==
    LET summary_info == Get(results[1], "summary_info", EmptyDict)
        attendance_summary == Get(summary_info, "attendance_summary", EmptyDict)
        processing_summary == Get(summary_info, "processing_summary", EmptyDict)
    IN  [present_count |-> Get(attendance_summary, "present", 0),
         absent_count  |-> Get(attendance_summary, "absent", 0),
         unknown_count |-> Get(attendance_summary, "unknown", 0),
         error_count   |-> Get(attendance_summary, "errors", 0),
         total_faces   |-> Get(processing_summary, "total_faces_detected", 0)]

\* the diagnostic of the else branch
NoResultMessage(encs) == IF encs = <<>> THEN "no_gallery" ELSE "no_faces"

Dates == {"2024-01-01", "2024-01-02"}

\* the faces an uploaded photo is drawn from in the system specification
UploadFaces ==
    { [loc |-> <<0, 20, 20, 0>>, enc |-> 100],
      [loc |-> <<0, 20, 20, 0>>, enc |-> 501],
      [loc |-> <<0, 120, 20, 100>>, enc |-> BadEncoding] }

UploadPhotos ==
    {[readable |-> TRUE, faces |-> f] : f \in SeqsUpTo(UploadFaces, MaxUploadDet)}
        \cup {UnreadablePhoto}

(***************************************************************************)
(* Specification SpecRepeat: process_class_photo called photo after photo  *)
(* on one gallery.  As upload_file does, the caller stores a roster with   *)
(* records before it takes the next photo; the roster of the previous call *)
(* stays in attendance_results until the next call returns.                *)
(***************************************************************************)
InitRepeat ==
    \E fs \in SUBSET FaceFiles :
      /\ Cardinality(fs) <= MaxFiles
      /\ dataset = [exists |-> TRUE, files |-> fs]
      /\ \E l \in Listings(dataset) :
            LET g == create_encodings(dataset, l, NoFile, "ok")
            IN  /\ known_face_encodings = g.encodings
                /\ known_face_names = g.names
                /\ encodings_file = g.file
      /\ last_known_images = Unset
      /\ attendance_file = <<>>
      /\ photo \in UploadPhotos
      /\ attendance_results = None
      /\ flash = "none"
      /\ pc = "called"
      /\ ret = NoReturn
      /\ rebuild = NoRebuild
      /\ loaded_images = Remembered(ImageNames(dataset))

NextPhoto ==
    /\ pc = "returned"
    /\ Len(attendance_file) < MaxRows
    /\ attendance_file' =
          IF Truthy(attendance_results)
          THEN save_attendance(attendance_file, "2024-01-01",
                               attendance_results.results, "ok").rows
          ELSE attendance_file
    /\ photo' \in UploadPhotos
    /\ pc' = "called"
    /\ UNCHANGED <<known_face_encodings, known_face_names, last_known_images,
                   dataset, encodings_file, attendance_results, flash,
                   ret, rebuild, loaded_images>>

NextRepeat == ProcessClassPhoto \/ NextPhoto

SpecRepeat == InitRepeat /\ [][NextRepeat]_vars

Requests ==
    {[kind |-> "image", photo |-> p] : p \in UploadPhotos}
        \cup {[kind |-> k, photo |-> NoFacesPhoto] : k \in {"missing", "bad_type"}}

(***************************************************************************)
(* The system: the state after the module is loaded, and its operations.   *)
(***************************************************************************)
Init ==
    /\ known_face_encodings = <<>>
    /\ known_face_names = <<>>
    /\ last_known_images = Unset
    /\ dataset \in {NoDataset, [exists |-> TRUE, files |-> {}]}
    /\ encodings_file \in {NoFile, Unreadable}
    /\ attendance_file = <<>>
    /\ photo = NoFacesPhoto
    /\ attendance_results = None
    /\ flash = "none"
    /\ pc = "idle"
    /\ ret = NoReturn
    /\ rebuild = NoRebuild
    /\ loaded_images = Unset

SetGallery(g) ==
    /\ known_face_encodings' = g.encodings
    /\ known_face_names' = g.names
    /\ encodings_file' = g.file

\* the environment: reference images come and go
AddImage(f) ==
    /\ pc = "idle"
    /\ dataset.exists
    /\ f \notin dataset.files
    /\ \A g \in dataset.files : g.name # f.name
    /\ dataset' = [dataset EXCEPT !.files = @ \cup {f}]
    /\ UNCHANGED <<known_face_encodings, known_face_names, last_known_images,
                   encodings_file, attendance_file, photo, attendance_results, flash, pc,
                   ret, rebuild, loaded_images>>

RemoveImage(f) ==
    /\ pc = "idle"
    /\ f \in dataset.files
    /\ dataset' = [dataset EXCEPT !.files = @ \ {f}]
    /\ UNCHANGED <<known_face_encodings, known_face_names, last_known_images,
                   encodings_file, attendance_file, photo, attendance_results, flash, pc,
                   ret, rebuild, loaded_images>>

RemoveDataset ==
    /\ pc = "idle"
    /\ dataset.exists
    /\ dataset' = NoDataset
    /\ UNCHANGED <<known_face_encodings, known_face_names, last_known_images,
                   encodings_file, attendance_file, photo, attendance_results, flash, pc,
                   ret, rebuild, loaded_images>>

CreateDataset ==
    /\ pc = "idle"
    /\ ~dataset.exists
    /\ dataset' = [exists |-> TRUE, files |-> {}]
    /\ UNCHANGED <<known_face_encodings, known_face_names, last_known_images,
                   encodings_file, attendance_file, photo, attendance_results, flash, pc,
                   ret, rebuild, loaded_images>>

\* the calls of FaceRecognitionSystem
InitializeSystem ==
    /\ pc = "idle"
    /\ \E l \in Listings(dataset), w \in WriteOutcomes :
          SetGallery(initialize_system(dataset, l, encodings_file, w))
    /\ loaded_images' = Remembered(ImageNames(dataset))
    /\ UNCHANGED <<last_known_images, dataset, attendance_file, photo,
                   attendance_results, flash, pc, ret, rebuild>>

LoadEncodings ==
    /\ pc = "idle"
    /\ \E l \in Listings(dataset), w \in WriteOutcomes :
          SetGallery(load_encodings(dataset, l, encodings_file, w))
    /\ loaded_images' = Remembered(ImageNames(dataset))
    /\ UNCHANGED <<last_known_images, dataset, attendance_file, photo,
                   attendance_results, flash, pc, ret, rebuild>>

CreateEncodings ==
    /\ pc = "idle"
    /\ \E l \in Listings(dataset), w \in WriteOutcomes :
          SetGallery(create_encodings(dataset, l, encodings_file, w))
    /\ loaded_images' = Remembered(ImageNames(dataset))
    /\ UNCHANGED <<last_known_images, dataset, attendance_file, photo,
                   attendance_results, flash, pc, ret, rebuild>>

CheckAndReloadEncodings ==
    /\ pc = "idle"
    /\ pc' = "done"
    /\ \E l \in Listings(dataset), w \in WriteOutcomes :
          LET r == check_and_reload_encodings(Gallery, last_known_images, dataset, l, w)
          IN  /\ SetGallery(r.g)
              /\ last_known_images' = r.last
              /\ ret' = Returned("check_and_reload_encodings", r.reloaded)
              /\ loaded_images' = IF r.reloaded THEN Remembered(ImageNames(dataset))
                                  ELSE loaded_images
    /\ UNCHANGED <<dataset, attendance_file, photo, attendance_results, flash, rebuild>>

\* get_system_status reporting a loaded gallery in every state
get_system_status_AlwaysLoaded(names, encs) ==
    [total_students |-> Len(names), encodings_loaded |-> TRUE,
     dataset_path |-> "dataset", encodings_file |-> "models/encodings.pkl"]

get_system_status(names, encs) ==
    [total_students |-> Len(names), encodings_loaded |-> Len(encs) > 0,
     dataset_path |-> "dataset", encodings_file |-> "models/encodings.pkl"]

\* self.known_face_names.copy()
get_known_students(names) == [k \in 1..Len(names) |-> names[k]]

\* GET /test: the status and the student list that the page shows
TestSystem ==
    /\ pc = "idle"
    /\ pc' = "done"
    /\ ret' = Returned("test_system",
                 [system_status |-> get_system_status(known_face_names, known_face_encodings),
                  known_students |-> get_known_students(known_face_names)])
    /\ UNCHANGED <<known_face_encodings, known_face_names, last_known_images,
                   dataset, encodings_file, attendance_file, photo, attendance_results,
                   flash, rebuild, loaded_images>>

\* POST /upload
UploadFile(req, l, w, date, aw) ==
    /\ pc = "idle"
    /\ pc' = "returned"
    /\ Len(attendance_file) < MaxRows
    /\ IF req.kind = "missing"
       THEN /\ flash' = "no_file"
            /\ ret' = NoReturn
            /\ UNCHANGED <<known_face_encodings, known_face_names, encodings_file,
                           last_known_images, attendance_file, photo, attendance_results,
                           loaded_images>>
       ELSE IF req.kind = "bad_type"
       THEN /\ flash' = "invalid_type"
            /\ ret' = NoReturn
            /\ UNCHANGED <<known_face_encodings, known_face_names, encodings_file,
                           last_known_images, attendance_file, photo, attendance_results,
                           loaded_images>>
       ELSE LET r   == check_and_reload_encodings(Gallery, last_known_images, dataset, l, w)
                res == process_class_photo(r.g.names, r.g.encodings, req.photo)
            IN  /\ SetGallery(r.g)
                /\ last_known_images' = r.last
                /\ photo' = req.photo
                /\ attendance_results' = res
                /\ loaded_images' = IF r.reloaded THEN Remembered(ImageNames(dataset))
                                    ELSE loaded_images
                /\ IF Truthy(res)
                   THEN /\ attendance_file' =
                             save_attendance(attendance_file, date, res.results, aw).rows
                        /\ flash' = "success"
                        /\ ret' = Returned("upload_file", MessageCounts(res.results))
                   ELSE /\ attendance_file' = attendance_file
                        /\ flash' = NoResultMessage(r.g.encodings)
                        /\ ret' = NoReturn
    /\ UNCHANGED <<dataset, rebuild>>

Upload ==
    \E req \in Requests, l \in Listings(dataset), w \in WriteOutcomes,
       date \in Dates, aw \in {"ok", "denied"} : UploadFile(req, l, w, date, aw)

\* the response is sent, or the caller has taken the return value: the
\* locals of the request and the flashed message are gone
Respond ==
    /\ pc \in {"returned", "done"}
    /\ pc' = "idle"
    /\ photo' = NoFacesPhoto
    /\ attendance_results' = None
    /\ flash' = "none"
    /\ ret' = NoReturn
    /\ UNCHANGED <<known_face_encodings, known_face_names, last_known_images,
                   dataset, encodings_file, attendance_file, rebuild, loaded_images>>

Next ==
    \/ \E f \in SystemFiles : AddImage(f)
    \/ \E f \in SystemFiles : RemoveImage(f)
    \/ RemoveDataset
    \/ CreateDataset
    \/ InitializeSystem
    \/ LoadEncodings
    \/ CreateEncodings
    \/ CheckAndReloadEncodings
    \/ TestSystem
    \/ Upload
    \/ Respond

Spec == Init /\ [][Next]_vars

(***************************************************************************)
(* Specification SpecGallery: one call of initialize_system,               *)
(* load_encodings or create_encodings, for a dataset directory over the    *)
(* whole file universe, a gallery in memory left by an earlier rebuild (or *)
(* none) and a snapshot file that is absent, unreadable or left by an      *)
(* earlier rebuild.                                                        *)
(***************************************************************************)
Datasets ==
    {NoDataset} \cup
    {[exists |-> TRUE, files |-> fs] :
        fs \in {x \in SUBSET FileUniverse : Cardinality(x) <= MaxFiles}}

\* the galleries [encodings, names] that rebuilds produce
BuiltGalleries ==
    LET sets == {x \in SUBSET FaceFiles : Cardinality(x) <= MaxFiles}
        Built(fs, l) == create_encodings([exists |-> TRUE, files |-> fs], l, NoFile, "ok")
    IN  UNION {{[encodings |-> Built(fs, l).encodings, names |-> Built(fs, l).names] :
                   l \in Listings([exists |-> TRUE, files |-> fs])} : fs \in sets}

InitGallery ==
    /\ dataset \in Datasets
    /\ \E g \in BuiltGalleries :
          /\ known_face_encodings = g.encodings
          /\ known_face_names = g.names
    /\ encodings_file \in {NoFile, Unreadable}
                            \cup {Pickled(g.encodings, g.names) : g \in BuiltGalleries}
    /\ last_known_images = Unset
    /\ attendance_file = <<>>
    /\ photo = NoFacesPhoto
    /\ attendance_results = None
    /\ flash = "none"
    /\ pc = "called"
    /\ ret = NoReturn
    /\ rebuild = NoRebuild
    /\ loaded_images = Unset

\* the call runs to its end; these methods return None
GalleryCall(op, g) ==
    /\ pc = "called"
    /\ pc' = "done"
    /\ SetGallery(g)
    /\ ret' = Returned(op, "None")
    /\ loaded_images' = Remembered(ImageNames(dataset))
    /\ UNCHANGED <<last_known_images, dataset, attendance_file, photo,
                   attendance_results, flash, rebuild>>

CallInitializeSystem ==
    \E l \in Listings(dataset), w \in WriteOutcomes :
        GalleryCall("initialize_system", initialize_system(dataset, l, encodings_file, w))

CallLoadEncodings ==
    \E l \in Listings(dataset), w \in WriteOutcomes :
        GalleryCall("load_encodings", load_encodings(dataset, l, encodings_file, w))

CallCreateEncodings ==
    \E l \in Listings(dataset), w \in WriteOutcomes :
        GalleryCall("create_encodings", create_encodings(dataset, l, encodings_file, w))

NextGallery == CallInitializeSystem \/ CallLoadEncodings \/ CallCreateEncodings

SpecGallery == InitGallery /\ [][NextGallery]_vars

(***************************************************************************)
(* Specification SpecConcurrent: two uploads served by two threads.  The   *)
(* first is inside check_and_reload_encodings, whose create_encodings      *)
(* assigns and appends to the two lists of the gallery one statement at a  *)
(* time; the second, whose own check ran before the directory changed, is  *)
(* inside process_class_photo, which reads the gallery when it tests it    *)
(* for emptiness, in the loop over the faces and in the Absent loop.       *)
(* rebuild is [at, files, k]: the next statement of create_encodings, the  *)
(* image files that yield an embedding in listing order, and the index of  *)
(* the file in hand.  pc is the position of process_class_photo and        *)
(* attendance_results its list of records so far.                          *)
(***************************************************************************)
InitConcurrent ==
    /\ \E fs \in SUBSET FaceFiles :
          /\ Cardinality(fs) <= MaxFiles
          /\ \E l \in Listings([exists |-> TRUE, files |-> fs]) :
                LET g == create_encodings([exists |-> TRUE, files |-> fs], l, NoFile, "ok")
                IN  /\ known_face_encodings = g.encodings
                    /\ known_face_names = g.names
                    /\ encodings_file = g.file
          /\ last_known_images = Remembered(ImageNames([exists |-> TRUE, files |-> fs]))
          /\ loaded_images = Remembered(ImageNames([exists |-> TRUE, files |-> fs]))
    /\ \E fs \in SUBSET FaceFiles :
          /\ Cardinality(fs) <= MaxFiles
          /\ dataset = [exists |-> TRUE, files |-> fs]
    /\ attendance_file = <<>>
    /\ photo \in UploadPhotos
    /\ attendance_results = None
    /\ flash = "none"
    /\ pc = "called"
    /\ ret = NoReturn
    /\ rebuild = NoRebuild

\* auto_reload_encodings sees a changed directory and create_encodings
\* starts: self.known_face_encodings = []
BeginRebuild ==
    /\ rebuild.at = "idle"
    /\ last_known_images.set
    /\ ImageNames(dataset) # last_known_images.images
    /\ \E l \in Listings(dataset) :
          LET Yields(f) == IsImageFile(f) /\ f.readable /\ f.faces # <<>>
          IN  rebuild' = [at |-> "reset_names", files |-> SelectSeq(l, Yields), k |-> 1]
    /\ known_face_encodings' = <<>>
    /\ UNCHANGED <<known_face_names, last_known_images, dataset, encodings_file,
                   attendance_file, photo, attendance_results, flash, pc, ret,
                   loaded_images>>

\* self.known_face_names = []; without an image file the call returns here
\* and auto_reload_encodings records the file set
ResetNames ==
    /\ rebuild.at = "reset_names"
    /\ known_face_names' = <<>>
    /\ IF rebuild.files = <<>>
       THEN /\ rebuild' = NoRebuild
            /\ last_known_images' = Remembered(ImageNames(dataset))
            /\ loaded_images' = Remembered(ImageNames(dataset))
       ELSE /\ rebuild' = [rebuild EXCEPT !.at = "append_encoding"]
            /\ UNCHANGED <<last_known_images, loaded_images>>
    /\ UNCHANGED <<known_face_encodings, dataset, encodings_file, attendance_file,
                   photo, attendance_results, flash, pc, ret>>

\* self.known_face_encodings.append(face_encodings[0])
AppendEncoding ==
    /\ rebuild.at = "append_encoding"
    /\ known_face_encodings' = Append(known_face_encodings, rebuild.files[rebuild.k].faces[1])
    /\ rebuild' = [rebuild EXCEPT !.at = "append_name"]
    /\ UNCHANGED <<known_face_names, last_known_images, dataset, encodings_file,
                   attendance_file, photo, attendance_results, flash, pc, ret,
                   loaded_images>>

\* self.known_face_names.append(student_name)
AppendName ==
    /\ rebuild.at = "append_name"
    /\ known_face_names' = Append(known_face_names, student_name(rebuild.files[rebuild.k].name))
    /\ rebuild' = IF rebuild.k < Len(rebuild.files)
                  THEN [rebuild EXCEPT !.at = "append_encoding", !.k = @ + 1]
                  ELSE [rebuild EXCEPT !.at = "save"]
    /\ UNCHANGED <<known_face_encodings, last_known_images, dataset, encodings_file,
                   attendance_file, photo, attendance_results, flash, pc, ret,
                   loaded_images>>

\* self.save_encodings(), then self._last_known_images = current_images
FinishRebuild ==
    /\ rebuild.at = "save"
    /\ \E w \in WriteOutcomes :
          encodings_file' = save_encodings(known_face_encodings, known_face_names,
                                           encodings_file, w)
    /\ last_known_images' = Remembered(ImageNames(dataset))
    /\ loaded_images' = Remembered(ImageNames(dataset))
    /\ rebuild' = NoRebuild
    /\ UNCHANGED <<known_face_encodings, known_face_names, dataset, attendance_file,
                   photo, attendance_results, flash, pc, ret>>

\* process_class_photo up to `if not self.known_face_encodings`
TestGallery ==
    /\ pc = "called"
    /\ IF ~photo.readable \/ photo.faces = <<>> \/ known_face_encodings = <<>>
       THEN pc' = "returned" /\ attendance_results' = None
       ELSE pc' = "comparing" /\ attendance_results' = Some(<<>>)
    /\ UNCHANGED <<known_face_encodings, known_face_names, last_known_images, dataset,
                   encodings_file, attendance_file, photo, flash, ret, rebuild,
                   loaded_images>>

\* the loop over the faces
CompareFaces ==
    /\ pc = "comparing"
    /\ pc' = "marking"
    /\ attendance_results' =
          Some(FaceLoop(known_face_names, known_face_encodings, photo.faces, 1,
                        EmptyLocals).results)
    /\ UNCHANGED <<known_face_encodings, known_face_names, last_known_images, dataset,
                   encodings_file, attendance_file, photo, flash, ret, rebuild,
                   loaded_images>>

\* the Absent loop, the sort and the return; recognized_students holds the
\* names of the Present records
MarkAndReturn ==
    /\ pc = "marking"
    /\ pc' = "returned"
    /\ LET IsPresent(r) == r.status = "Present"
           present == SelectSeq(attendance_results.results, IsPresent)
           recognized == [k \in 1..Len(present) |-> present[k].name]
       IN  attendance_results' =
             Some(SortResults(MarkAbsent(known_face_names, recognized, 1,
                                         attendance_results.results)))
    /\ UNCHANGED <<known_face_encodings, known_face_names, last_known_images, dataset,
                   encodings_file, attendance_file, photo, flash, ret, rebuild,
                   loaded_images>>

NextConcurrent ==
    \/ BeginRebuild
    \/ ResetNames
    \/ AppendEncoding
    \/ AppendName
    \/ FinishRebuild
    \/ TestGallery
    \/ CompareFaces
    \/ MarkAndReturn

SpecConcurrent == InitConcurrent /\ [][NextConcurrent]_vars

(***************************************************************************)
(* ReportGenerator (utils/report_utils.py).  A CSV text is the sequence of *)
(* its rows, a row the tuple of its fields; the empty string that          *)
(* generate_csv returns on an exception is the text without rows.          *)
(***************************************************************************)
CsvHeader == <<"Date", "Student Name", "Status", "Confidence", "Generated At">>

\* datetime.now().strftime(...): one value for all rows of a call
Timestamp == "now"

\* record['name'] and record['status'] raise KeyError when the key is missing
HasKeys(r) == {"name", "status"} \subseteq DOMAIN r

generate_csv(attendance_data, date) ==
    IF \E k \in 1..Len(attendance_data) : ~HasKeys(attendance_data[k])
    THEN <<>>
    ELSE <<CsvHeader>> \o
         [k \in 1..Len(attendance_data) |->
            <<date, attendance_data[k].name, attendance_data[k].status,
              Get(attendance_data[k], "confidence", <<"N/A">>), Timestamp>>]

\* len([r for r in attendance_data if r['status'] == s])
CountStatus(attendance_data, s) ==
    Cardinality({k \in 1..Len(attendance_data) : attendance_data[k].status = s})

\* round(present / (present + absent) * 100, 2), in hundredths of a percent
AttendanceRate(present, absent) ==
    IF present + absent > 0
    THEN (2 * present * 10000 + (present + absent)) \div (2 * (present + absent))
    ELSE 0

\* the summary report counting only Present and Absent records as students
generate_summary_report_PresentAbsentTotal(attendance_data, date) ==
    LET present == CountStatus(attendance_data, "Present")
        absent  == CountStatus(attendance_data, "Absent")
        unknown == CountStatus(attendance_data, "Unknown")
    IN  [date |-> date, total_students |-> present + absent,
         present_count |-> present, absent_count |-> absent,
         unknown_count |-> unknown,
         attendance_rate |-> AttendanceRate(present, absent),
         summary |-> <<"Class attendance for", date>>]

generate_summary_report(attendance_data, date) ==
    IF attendance_data = <<>>
    THEN [date |-> date, total_students |-> 0, present_count |-> 0,
          absent_count |-> 0, unknown_count |-> 0, attendance_rate |-> 0,
          summary |-> <<"No attendance data available">>]
    ELSE IF \E k \in 1..Len(attendance_data) : "status" \notin DOMAIN attendance_data[k]
    THEN EmptyDict
    ELSE LET present == CountStatus(attendance_data, "Present")
             absent  == CountStatus(attendance_data, "Absent")
             unknown == CountStatus(attendance_data, "Unknown")
         IN  [date |-> date, total_students |-> Len(attendance_data),
              present_count |-> present, absent_count |-> absent,
              unknown_count |-> unknown,
              attendance_rate |-> AttendanceRate(present, absent),
              summary |-> <<"Class attendance for", date>>]

(***************************************************************************)
(* Specification SpecReport: one call of generate_csv or                   *)
(* generate_summary_report on attendance data of up to MaxRecords records. *)
(***************************************************************************)
ReportRecords ==
    { [name |-> <<"Test Student">>, status |-> "Present", confidence |-> <<"High">>],
      [name |-> <<"Another Student">>, status |-> "Absent", confidence |-> <<"N/A">>],
      [name |-> <<"Unknown Person", "1">>, status |-> "Unknown", confidence |-> <<"Low">>],
      [name |-> <<"Error", "2">>, status |-> "Error", confidence |-> <<"N/A">>],
      [name |-> <<"Test Student">>, status |-> "Absent"] }

InitReport ==
    /\ known_face_encodings = <<>>
    /\ known_face_names = <<>>
    /\ last_known_images = Unset
    /\ dataset = NoDataset
    /\ encodings_file = NoFile
    /\ attendance_file = <<>>
    /\ photo = NoFacesPhoto
    /\ \E data \in SeqsUpTo(ReportRecords, MaxRecords) : attendance_results = Some(data)
    /\ flash = "none"
    /\ pc = "called"
    /\ ret = NoReturn
    /\ rebuild = NoRebuild
    /\ loaded_images = Unset

ReportCall(op, v) ==
    /\ pc = "called"
    /\ pc' = "done"
    /\ ret' = Returned(op, v)
    /\ UNCHANGED <<known_face_encodings, known_face_names, last_known_images, dataset,
                   encodings_file, attendance_file, photo, attendance_results, flash,
                   rebuild, loaded_images>>

GenerateCsv ==
    \E date \in Dates :
        ReportCall("generate_csv",
                   [date |-> date, csv |-> generate_csv(attendance_results.results, date)])

GenerateSummaryReport ==
    \E date \in Dates :
        ReportCall("generate_summary_report",
                   generate_summary_report(attendance_results.results, date))

NextReport == GenerateCsv \/ GenerateSummaryReport

SpecReport == InitReport /\ [][NextReport]_vars

(***************************************************************************)
(* Specification SpecCalls: the methods of FaceRecognitionSystem called    *)
(* one at a time, in any order, while reference images come and go.  The   *)
(* snapshot file of the initial state is absent, unreadable or left by an  *)
(* earlier rebuild.  The list that get_known_students returns is           *)
(* [list, is_gallery_list]: its content and whether it is the list object  *)
(* of the gallery itself, so that a caller changing it changes the gallery.*)
(***************************************************************************)
CallFiles ==
    { File(<<"Alice", "_", "A", ".", "jpg">>, TRUE, <<0, 700>>),
      File(<<"Bob", ".", "jpeg">>,            TRUE, <<1000>>),
      File(<<"blank", ".", "gif">>,           TRUE, <<>>) }

InitCalls ==
    /\ known_face_encodings = <<>>
    /\ known_face_names = <<>>
    /\ last_known_images = Unset
    /\ dataset \in {NoDataset, [exists |-> TRUE, files |-> {}]}
    /\ encodings_file \in {NoFile, Unreadable}
                            \cup {Pickled(g.encodings, g.names) : g \in BuiltGalleries}
    /\ attendance_file = <<>>
    /\ photo = NoFacesPhoto
    /\ attendance_results = None
    /\ flash = "none"
    /\ pc = "idle"
    /\ ret = NoReturn
    /\ rebuild = NoRebuild
    /\ loaded_images = Unset

\* process_class_photo emptying the gallery when it finds no face
CallProcessClassPhoto_ClearsGallery ==
    /\ pc = "idle"
    /\ pc' = "returned"
    /\ photo' \in UploadPhotos
    /\ attendance_results' =
          process_class_photo(known_face_names, known_face_encodings, photo')
    /\ IF photo'.faces = <<>>
       THEN known_face_encodings' = <<>> /\ known_face_names' = <<>>
       ELSE UNCHANGED <<known_face_encodings, known_face_names>>
    /\ UNCHANGED <<last_known_images, dataset,
                   encodings_file, attendance_file, flash, ret, rebuild, loaded_images>>

CallProcessClassPhoto ==
    /\ pc = "idle"
    /\ pc' = "returned"
    /\ photo' \in UploadPhotos
    /\ attendance_results' =
          process_class_photo(known_face_names, known_face_encodings, photo')
    /\ UNCHANGED <<known_face_encodings, known_face_names, last_known_images, dataset,
                   encodings_file, attendance_file, flash, ret, rebuild, loaded_images>>

\* return self.known_face_names.copy(): a new list object
CopyIsGalleryList == FALSE

GetKnownStudents ==
    /\ pc = "idle"
    /\ pc' = "done"
    /\ ret' = Returned("get_known_students",
                       [list |-> get_known_students(known_face_names),
                        is_gallery_list |-> CopyIsGalleryList])
    /\ UNCHANGED <<known_face_encodings, known_face_names, last_known_images,
                   dataset, encodings_file, attendance_file, photo, attendance_results,
                   flash, rebuild, loaded_images>>

\* the caller appends to the list it was given
CallerAppends ==
    /\ pc = "done"
    /\ ret.op = "get_known_students"
    /\ ret.value.list = known_face_names
    /\ ret' = [ret EXCEPT !.value.list = Append(@, <<"Guest">>)]
    /\ known_face_names' = IF ret.value.is_gallery_list
                           THEN Append(known_face_names, <<"Guest">>)
                           ELSE known_face_names
    /\ UNCHANGED <<known_face_encodings, last_known_images, dataset, encodings_file,
                   attendance_file, photo, attendance_results, flash, pc, rebuild,
                   loaded_images>>

NextCalls ==
    \/ \E f \in CallFiles : AddImage(f)
    \/ \E f \in CallFiles : RemoveImage(f)
    \/ RemoveDataset
    \/ CreateDataset
    \/ InitializeSystem
    \/ LoadEncodings
    \/ CreateEncodings
    \/ CheckAndReloadEncodings
    \/ CallProcessClassPhoto
    \/ GetKnownStudents
    \/ CallerAppends
    \/ Respond

SpecCalls == InitCalls /\ [][NextCalls]_vars

(***************************************************************************)
(* AttendanceManager reading the CSV with pandas.  read_csv turns a field  *)
(* whose text is one of its default NA strings ("N/A", the empty field,    *)
(* ...) into NaN; to_csv writes NaN as the empty field.                    *)
(***************************************************************************)
NaN == <<"NaN">>

EmptyField == <<>>

\* the default na_values of read_csv among the texts of a Confidence field
NaStrings == {<<"N/A">>, EmptyField}

\* pd.read_csv(self.attendance_file)
read_csv(rows) ==
    [k \in 1..Len(rows) |->
        IF rows[k].confidence \in NaStrings THEN [rows[k] EXCEPT !.confidence = NaN]
        ELSE rows[k]]

\* df.to_csv(self.attendance_file, index=False)
to_csv(df) ==
    [k \in 1..Len(df) |->
        IF df[k].confidence = NaN THEN [df[k] EXCEPT !.confidence = EmptyField]
        ELSE df[k]]

\* ('Present', 'Absent', 'Unknown').index(status); 0 stands for ValueError
ReadOrder == <<"Present", "Absent", "Unknown">>

ReadKey(r) ==
    IF \E k \in 1..Len(ReadOrder) : ReadOrder[k] = r.status
    THEN IndexOf(ReadOrder, r.status)
    ELSE 0

\* the stable sort of list.sort(key=...)
RECURSIVE InsertByKey(_, _)
InsertByKey(sorted, r) ==
    IF sorted = <<>> THEN <<r>>
    ELSE IF ReadKey(sorted[Len(sorted)]) <= ReadKey(r) THEN Append(sorted, r)
    ELSE Append(InsertByKey(SubSeq(sorted, 1, Len(sorted) - 1), r), sorted[Len(sorted)])

RECURSIVE SortByKey(_)
SortByKey(rs) ==
    IF rs = <<>> THEN <<>>
    ELSE InsertByKey(SortByKey(SubSeq(rs, 1, Len(rs) - 1)), rs[Len(rs)])

get_attendance_by_date(rows, date) ==
    LET df == read_csv(rows)
        OfDate(r) == r.date = date
        date_data == SelectSeq(df, OfDate)
        attendance_list ==
            [k \in 1..Len(date_data) |->
                [name |-> date_data[k].name, status |-> date_data[k].status,
                 confidence |-> date_data[k].confidence]]
    IN  IF date_data = <<>> THEN <<>>
        ELSE IF \E k \in 1..Len(attendance_list) : ReadKey(attendance_list[k]) = 0
        THEN <<>>                           \* ValueError, except: return []
        ELSE SortByKey(attendance_list)

\* the result is the rows of the file and the returned boolean
delete_attendance_date(rows, date, w) ==
    LET df == read_csv(rows)
        OtherDate(r) == r.date # date
        df_filtered == SelectSeq(df, OtherDate)
    IN  IF w = "ok" THEN [rows |-> to_csv(df_filtered), ok |-> TRUE]
        ELSE [rows |-> rows, ok |-> FALSE]

(***************************************************************************)
(* Specification SpecStore: save_attendance, get_attendance_by_date and    *)
(* delete_attendance_date called one at a time on the attendance file.     *)
(* The rosters saved are those process_class_photo returns for a gallery   *)
(* of two students and the photos of the system specification.             *)
(***************************************************************************)
StoreRosters ==
    LET names == << <<"Alice", " ", "A">>, <<"Bob">> >>
        encs  == <<0, 1000>>
        all   == {process_class_photo(names, encs, p) : p \in UploadPhotos}
    IN  {res.results : res \in {x \in all : ~x.none}}

InitStore ==
    /\ known_face_encodings = <<0, 1000>>
    /\ known_face_names = << <<"Alice", " ", "A">>, <<"Bob">> >>
    /\ last_known_images = Unset
    /\ dataset = NoDataset
    /\ encodings_file = NoFile
    /\ attendance_file = <<>>
    /\ photo = NoFacesPhoto
    /\ attendance_results = None
    /\ flash = "none"
    /\ pc = "idle"
    /\ ret = NoReturn
    /\ rebuild = NoRebuild
    /\ loaded_images = Unset

StoreCall(op, v, rows) ==
    /\ pc = "idle"
    /\ pc' = "done"
    /\ ret' = Returned(op, v)
    /\ attendance_file' = rows
    /\ UNCHANGED <<known_face_encodings, known_face_names, last_known_images, dataset,
                   encodings_file, photo, attendance_results, flash, rebuild,
                   loaded_images>>

SaveAttendance ==
    /\ Len(attendance_file) < MaxSaved
    /\ \E date \in Dates, roster \in StoreRosters, w \in {"ok", "denied"} :
          LET r == save_attendance(attendance_file, date, roster, w)
          IN  StoreCall("save_attendance",
                        [date |-> date, attendance_results |-> roster, ok |-> r.ok],
                        r.rows)

GetAttendanceByDate ==
    \E date \in Dates :
        StoreCall("get_attendance_by_date",
                  [date |-> date, list |-> get_attendance_by_date(attendance_file, date)],
                  attendance_file)

DeleteAttendanceDate ==
    \E date \in Dates, w \in {"ok", "denied"} :
        LET r == delete_attendance_date(attendance_file, date, w)
        IN  StoreCall("delete_attendance_date", [date |-> date, ok |-> r.ok], r.rows)

NextStore ==
    \/ SaveAttendance
    \/ GetAttendanceByDate
    \/ DeleteAttendanceDate
    \/ Respond

SpecStore == InitStore /\ [][NextStore]_vars

(***************************************************************************)
(* Vocabulary of the properties of a roster.  These definitions describe   *)
(* what the roster of `photo` against the gallery must be; they do not use *)
(* the operators of process_class_photo above.                             *)
(***************************************************************************)
Faces == photo.faces

Roster == attendance_results.results

RosterReturned == pc = "returned" /\ ~attendance_results.none

WithStatus(rs, s) == LET Has(r) == r.status = s IN SelectSeq(rs, Has)

Positions(rs, s) == {k \in 1..Len(rs) : rs[k].status = s}

\* the distance of face i to gallery entry k, and to the closest entry
DistTo(i, k) ==
    IF known_face_encodings[k] >= Faces[i].enc
    THEN known_face_encodings[k] - Faces[i].enc
    ELSE Faces[i].enc - known_face_encodings[k]

Closest(i) ==
    CHOOSE k \in 1..Len(known_face_encodings) :
        /\ \A j \in 1..Len(known_face_encodings) : DistTo(i, k) <= DistTo(i, j)
        /\ \A j \in 1..Len(known_face_encodings) : DistTo(i, j) = DistTo(i, k) => k <= j

Score(i) == LET k == Closest(i) IN 1000 - DistTo(i, k)

Malformed(i) == Faces[i].enc = BadEncoding

WithinTolerance(i) ==
    \E k \in 1..Len(known_face_encodings) : DistTo(i, k) <= 500

\* face i is accepted as a gallery identity
Accepted(i) == ~Malformed(i) /\ WithinTolerance(i) /\ Score(i) > 600

\* the box centres of faces i and j are less than 50 pixels apart
Near(i, j) ==
    LET ci == <<(Faces[i].loc[1] + Faces[i].loc[3]) \div 2,
                (Faces[i].loc[2] + Faces[i].loc[4]) \div 2>>
        cj == <<(Faces[j].loc[1] + Faces[j].loc[3]) \div 2,
                (Faces[j].loc[2] + Faces[j].loc[4]) \div 2>>
    IN  (ci[1] - cj[1]) * (ci[1] - cj[1]) + (ci[2] - cj[2]) * (ci[2] - cj[2]) < 2500

\* the faces that yield a record: those not near an earlier face that was
\* recorded as Present
Recorded ==
    CHOOSE S \in SUBSET (1..Len(Faces)) :
        \A i \in 1..Len(Faces) :
            i \in S <=> ~\E j \in S : j < i /\ Accepted(j) /\ Near(i, j)

\* the greedy scan of the design: the faces not near an earlier kept face
Kept ==
    CHOOSE S \in SUBSET (1..Len(Faces)) :
        \A i \in 1..Len(Faces) :
            i \in S <=> ~\E j \in S : j < i /\ Near(i, j)

\* the record that a recorded face i must yield
ExpectedRecord(i) ==
    IF Malformed(i)
    THEN [name |-> <<"Error", ToString(i)>>, status |-> "Error",
          confidence |-> <<"N/A">>, face_location |-> Faces[i].loc]
    ELSE IF ~WithinTolerance(i)
    THEN [name |-> <<"Unknown Person", ToString(i)>>, status |-> "Unknown",
          confidence |-> <<"Low">>, face_location |-> Faces[i].loc]
    ELSE IF Score(i) > 600
    THEN [name |-> known_face_names[Closest(i)], status |-> "Present",
          confidence |-> <<"High", (Score(i) + 5) \div 10>>,
          face_location |-> Faces[i].loc]
    ELSE [name |-> known_face_names[Closest(i)], status |-> "Unknown",
          confidence |-> <<"Low", (Score(i) + 5) \div 10>>,
          face_location |-> Faces[i].loc]

\* the records of the recorded faces of one status, in input order
ExpectedOfStatus(s) ==
    LET idx == [i \in 1..Len(Faces) |-> i]
        rec == Recorded
        Is(i) == i \in rec /\ ExpectedRecord(i).status = s
        sel == SelectSeq(idx, Is)
    IN  [k \in 1..Len(sel) |-> ExpectedRecord(sel[k])]

PresentNames == {Roster[k].name : k \in Positions(Roster, "Present")}

\* the Absent records the gallery must get, in gallery order
ExpectedAbsent ==
    LET idx == [k \in 1..Len(known_face_names) |-> k]
        seen == PresentNames
        Missing(k) == known_face_names[k] \notin seen
        sel == SelectSeq(idx, Missing)
    IN  [k \in 1..Len(sel) |->
            [name |-> known_face_names[sel[k]], status |-> "Absent",
             confidence |-> <<"N/A">>, face_location |-> <<>>]]

(***************************************************************************)
(* Properties of process_class_photo (specification SpecRoster).           *)
(***************************************************************************)

\* C1: in a returned roster no name is in a Present record and in an Absent
\* record, also when the gallery repeats a name.
C1_PresentAbsentExclusive ==
    RosterReturned =>
        \A i \in Positions(Roster, "Present") : \A j \in Positions(Roster, "Absent") :
            Roster[i].name # Roster[j].name

C1_Witness ==
    /\ RosterReturned
    /\ Len(known_face_names) = 2
    /\ known_face_names[1] = known_face_names[2]
    /\ Positions(Roster, "Present") # {}
    /\ Len(Faces) = 2

\* C2: the roster has exactly |G| records that are Present or Absent, and one
\* Unknown or Error record for each face that survived deduplication and was
\* not accepted as a gallery identity.
C2_Completeness ==
    RosterReturned =>
        /\ Cardinality(Positions(Roster, "Present") \cup Positions(Roster, "Absent"))
             = Len(known_face_names)
        /\ Cardinality(Positions(Roster, "Unknown") \cup Positions(Roster, "Error"))
             = Cardinality({i \in Kept : ~Accepted(i)})

\* C3: a roster has at most one detection-derived record (Present, or
\* Unknown carrying a gallery name) per gallery name.
C3_OneRecordPerIdentity ==
    RosterReturned =>
        \A n \in Range(known_face_names) :
            Cardinality({k \in Positions(Roster, "Present") \cup Positions(Roster, "Unknown") :
                            Roster[k].name = n}) <= 1

\* C4: a face yields a record if and only if its centre is at least 50
\* pixels from the centre of every previously kept face, whatever that face
\* was classified as.
C4_GreedyDedup ==
    RosterReturned =>
        \A loc \in DetLocations :
            Cardinality({k \in 1..Len(Roster) : Roster[k].face_location = loc})
              = Cardinality({i \in Kept : Faces[i].loc = loc})

\* C5: a recorded face is Present exactly when a gallery entry is within
\* distance 0.5 and 1 - minDistance > 0.6; its record has the name of the
\* closest entry and the label "High (score)".
C5_PresentRule == RosterReturned => WithStatus(Roster, "Present") = ExpectedOfStatus("Present")

C5_Witness ==
    /\ RosterReturned
    /\ Len(Faces) = 2 /\ Faces[1].enc = 100 /\ Faces[2].enc = 400
    /\ known_face_encodings = <<0>>
    /\ Len(Roster) = 2
    /\ Roster[1] = [name |-> <<"Alice", " ", "A">>, status |-> "Present",
                    confidence |-> <<"High", 90>>, face_location |-> Faces[1].loc]
    /\ Roster[2].status = "Unknown"

\* C6: a recorded face that is neither Present nor in error is Unknown; it is
\* named "Unknown Person N" with label "Low" when no entry is within the
\* tolerance, and carries the closest entry's name with "Low (score)"
\* otherwise, and that name is still reported Absent unless another face was
\* Present for it.
C6_UnknownRule ==
    RosterReturned =>
        /\ WithStatus(Roster, "Unknown") = ExpectedOfStatus("Unknown")
        /\ \A k \in Positions(Roster, "Unknown") :
              (Roster[k].name \in Range(known_face_names)
                 /\ Roster[k].name \notin PresentNames)
              => \E j \in Positions(Roster, "Absent") : Roster[j].name = Roster[k].name

C6_Witness ==
    /\ RosterReturned
    /\ Len(Faces) = 2
    /\ Faces[1].enc = 501 /\ Faces[2].enc = 400
    /\ known_face_encodings = <<0>>
    /\ WithStatus(Roster, "Unknown")[1].name = <<"Unknown Person", "1">>
    /\ WithStatus(Roster, "Unknown")[2].confidence = <<"Low", 60>>
    /\ WithStatus(Roster, "Absent") # <<>>

\* C7: the roster has one Absent record, labelled "N/A" and without a box,
\* for every gallery entry whose name is not marked Present, in gallery
\* order, and no other Absent record.
C7_AbsentCompletion == RosterReturned => WithStatus(Roster, "Absent") = ExpectedAbsent

C7_Witness ==
    /\ RosterReturned
    /\ Len(known_face_names) = 2
    /\ Len(WithStatus(Roster, "Present")) = 1
    /\ Len(WithStatus(Roster, "Absent")) = 1
    /\ \E k \in Positions(Roster, "Unknown") : Roster[k].name = WithStatus(Roster, "Absent")[1].name

\* C8: the roster is ordered Present, Absent, Unknown, Error, and the records
\* of one status are in the order they were produced.
C8_SortedStable ==
    RosterReturned =>
        /\ \A i, j \in 1..Len(Roster) :
              (i < j) =>
                 \/ Roster[i].status = Roster[j].status
                 \/ Roster[i].status = "Present"
                 \/ Roster[j].status = "Error"
                 \/ Roster[i].status = "Absent" /\ Roster[j].status = "Unknown"
        /\ \A s \in {"Present", "Unknown", "Error"} :
              WithStatus(Roster, s) = ExpectedOfStatus(s)
        /\ WithStatus(Roster, "Absent") = ExpectedAbsent

C8_Witness ==
    /\ RosterReturned
    /\ Len(Roster) = 3
    /\ Len(Faces) = 2
    /\ Faces[1].enc = BadEncoding
    /\ Roster[1].status = "Present"
    /\ Roster[2].status = "Absent"
    /\ Roster[3].status = "Error"

\* a record without the detection number of its synthetic name
Unnumbered(r) ==
    IF r.name[1] \in {"Unknown Person", "Error"} THEN [r EXCEPT !.name = <<r.name[1]>>]
    ELSE r

\* the roster of the same photo without the faces whose comparison raises;
\* with no face left the photo has no detection and only the Absent
\* completion of the whole gallery remains
RosterWithoutMalformed ==
    LET Sound(f) == f.enc # BadEncoding
        sound == SelectSeq(Faces, Sound)
        res == process_class_photo(known_face_names, known_face_encodings,
                                   [readable |-> TRUE, faces |-> sound])
    IN  IF sound = <<>>
        THEN [k \in 1..Len(known_face_names) |->
                 [name |-> known_face_names[k], status |-> "Absent",
                  confidence |-> <<"N/A">>, face_location |-> <<>>]]
        ELSE res.results

\* C11: a face whose comparison raises yields exactly one Error record, for
\* that face; the remaining records, in their sorted order, are those of the
\* same photo without the failing faces (up to the detection number in the
\* synthetic names), the Absent records included.
C11_ErrorIsolated ==
    (RosterReturned /\ \E i \in 1..Len(Faces) : Malformed(i)) =>
        LET rec == Recorded
            NotError(r) == r.status # "Error"
            rest == SelectSeq(Roster, NotError)
            without == RosterWithoutMalformed
        IN  /\ Len(WithStatus(Roster, "Error"))
                 = Cardinality({i \in rec : Malformed(i)})
            /\ \A i \in rec : Malformed(i) =>
                  Cardinality({k \in 1..Len(Roster) :
                      Roster[k] = [name |-> <<"Error", ToString(i)>>, status |-> "Error",
                                   confidence |-> <<"N/A">>,
                                   face_location |-> Faces[i].loc]}) = 1
            /\ Len(rest) = Len(without)
            /\ \A k \in 1..Len(rest) : Unnumbered(rest[k]) = Unnumbered(without[k])

C11_Witness ==
    /\ RosterReturned
    /\ Len(Faces) = 2
    /\ Malformed(1) /\ Accepted(2) /\ Near(2, 1)
    /\ Len(known_face_names) = 2
    /\ Roster[1].status = "Present"
    /\ Roster[2].status = "Absent"
    /\ Roster[3] = [name |-> <<"Error", "1">>, status |-> "Error",
                    confidence |-> <<"N/A">>, face_location |-> Faces[1].loc]

(***************************************************************************)
(* Properties of repeated calls (specification SpecRepeat).                *)
(***************************************************************************)
\* the Absent records for the names without an expected Present record
ExpectedAbsentRecords ==
    LET present == ExpectedOfStatus("Present")
        seen == {present[k].name : k \in 1..Len(present)}
        idx == [k \in 1..Len(known_face_names) |-> k]
        Missing(k) == known_face_names[k] \notin seen
        sel == SelectSeq(idx, Missing)
    IN  [k \in 1..Len(sel) |->
            [name |-> known_face_names[sel[k]], status |-> "Absent",
             confidence |-> <<"N/A">>, face_location |-> <<>>]]

\* what a call returns, as a function of the gallery and the photo alone
ExpectedReturn ==
    IF ~photo.readable \/ Faces = <<>> \/ known_face_encodings = <<>>
    THEN [none |-> TRUE, results |-> <<>>]
    ELSE [none |-> FALSE,
          results |-> ExpectedOfStatus("Present") \o ExpectedAbsentRecords
                        \o ExpectedOfStatus("Unknown") \o ExpectedOfStatus("Error")]

\* C12: whatever photos were processed before, a call returns the roster
\* that the gallery and the detections of its own photo determine; two calls
\* with the same gallery and detections therefore return the same roster.
C12_NoCarriedState == (pc = "returned") => attendance_results = ExpectedReturn

\* an earlier photo put a student Present in the store and the roster of
\* the present photo reports the same student Absent
C12_Witness ==
    /\ pc = "returned"
    /\ ~attendance_results.none
    /\ \E k \in 1..Len(attendance_file) : \E j \in 1..Len(Roster) :
          /\ attendance_file[k].status = "Present"
          /\ Roster[j].status = "Absent"
          /\ Roster[j].name = attendance_file[k].name

(***************************************************************************)
(* Properties of upload_file (specification Spec).                         *)
(***************************************************************************)
\* a step in which upload_file processed an accepted image
ImageUploaded ==
    pc = "idle" /\ pc' = "returned" /\ flash' \notin {"no_file", "invalid_type"}

\* C9: with an empty gallery, or with zero detections, process_class_photo
\* returns None with no records, nothing is saved, and upload_file reports
\* "no gallery" for an empty gallery and "no faces" otherwise.
C9_NoRosterSentinel ==
    [][ImageUploaded =>
          ((known_face_encodings' = <<>> \/ (photo'.readable /\ photo'.faces = <<>>))
             => /\ attendance_results' = None
                /\ attendance_file' = attendance_file
                /\ flash' = IF known_face_encodings' = <<>> THEN "no_gallery"
                            ELSE "no_faces")]_vars

C9_Witness ==
    /\ pc = "returned"
    /\ known_face_encodings = <<>>
    /\ photo.readable /\ photo.faces # <<>>
    /\ attendance_results = None
    /\ flash = "no_gallery"

\* C10: upload_file never reports "no faces detected" for a photo whose
\* processing failed with an exception.
C10_FailureDistinct == ~(pc = "returned" /\ ~photo.readable /\ flash = "no_faces")

\* C13: the counts that upload_file puts in its success message are, for
\* each status, the number of roster records with that status, and the
\* number of faces detected in the photo.
C13_SummaryCounts ==
    (pc = "returned" /\ flash = "success") =>
        /\ ret.op = "upload_file"
        /\ ret.value.present_count = Cardinality(Positions(Roster, "Present"))
        /\ ret.value.absent_count = Cardinality(Positions(Roster, "Absent"))
        /\ ret.value.unknown_count = Cardinality(Positions(Roster, "Unknown"))
        /\ ret.value.error_count = Cardinality(Positions(Roster, "Error"))
        /\ ret.value.total_faces = Len(Faces)

(***************************************************************************)
(* Properties of the gallery store (specification Spec).                   *)
(***************************************************************************)
\* a step in which check_and_reload_encodings was called and returned
CheckReturned ==
    pc = "idle" /\ pc' = "done" /\ ret'.op = "check_and_reload_encodings"

\* the reference images of the directory that yield an embedding
ImagesWithFace ==
    {f \in dataset.files : IsImageFile(f) /\ f.readable /\ f.faces # <<>>}

\* C14: once the gallery was loaded or rebuilt, check_and_reload_encodings
\* returns True exactly when the image names of the directory differ from
\* those seen at that load or rebuild, has then rebuilt the gallery from
\* the directory, and leaves the current image names as the remembered set
\* (required here only while the directory exists).
C14_ReloadOnChange ==
    [][(CheckReturned /\ loaded_images.set) =>
          LET changed == ImageNames(dataset) # loaded_images.images
          IN  /\ ret'.value = changed
              /\ dataset.exists => last_known_images' = Remembered(ImageNames(dataset))
              /\ changed => Len(known_face_names') = Cardinality(ImagesWithFace)]_vars

(***************************************************************************)
(* Properties of one gallery call (specification SpecGallery).             *)
(***************************************************************************)
\* a file of the directory that is an image and yields an embedding
YieldsEmbedding(f) ==
    /\ f.name[Len(f.name)] \in {"png", "PNG", "jpg", "jpeg", "gif"}
    /\ f.readable
    /\ f.faces # <<>>

\* the file name without ".ext", underscores turned into spaces
NameOfFile(n) ==
    [k \in 1..(Len(n) - 2) |-> IF n[k] = "_" THEN " " ELSE n[k]]

\* the gallery in memory is the one built from the directory read in the
\* order l
BuiltFrom(l) ==
    LET good == SelectSeq(l, YieldsEmbedding)
    IN  /\ known_face_names = [k \in 1..Len(good) |-> NameOfFile(good[k].name)]
        /\ known_face_encodings = [k \in 1..Len(good) |-> good[k].faces[1]]

\* a step in which create_encodings ran and its write, if any, succeeded
CreateReturnedWritten ==
    /\ pc = "called" /\ pc' = "done" /\ ret'.op = "create_encodings"
    /\ \E l \in Listings(dataset) :
          SetGallery(create_encodings(dataset, l, encodings_file, "ok"))

\* C15: when create_encodings returns (no write having failed), the snapshot
\* file holds exactly the names and embeddings of the gallery in memory,
\* whatever the state of the dataset directory.
C15_SnapshotFollowsRebuild ==
    [][CreateReturnedWritten =>
          encodings_file' = [state |-> "pickled", encodings |-> known_face_encodings',
                             names |-> known_face_names']]_vars

\* C16: after create_encodings the gallery has, in the order the directory
\* was read, one entry for each image file that yields an embedding (its
\* first embedding, its file name without extension and with spaces for
\* underscores) and nothing else; it is empty without a directory.
C16_RebuildReplaces ==
    (pc = "done" /\ ret.op = "create_encodings") =>
        \E l \in Listings(dataset) : BuiltFrom(l)

\* a rebuild that skipped an unreadable image and kept the image behind it,
\* while the snapshot still holds an earlier gallery
C16_Witness ==
    /\ pc = "done" /\ ret.op = "create_encodings"
    /\ \E f \in dataset.files : ~f.readable
    /\ known_face_names = << <<"Alice", " ", "A">> >>
    /\ known_face_encodings = <<0>>
    /\ encodings_file.state = "pickled"
    /\ encodings_file.names = << <<"Bob">> >>

\* C17: initialize_system ends with the gallery of the snapshot, the file
\* untouched, when the snapshot can be read, and with the gallery rebuilt
\* from the directory when the snapshot is absent or unreadable; that
\* gallery is empty when the directory is missing.
C17_LoadOrRebuild ==
    [][(pc = "called" /\ pc' = "done" /\ ret'.op = "initialize_system") =>
          IF encodings_file.state = "pickled"
          THEN /\ known_face_names' = encodings_file.names
               /\ known_face_encodings' = encodings_file.encodings
               /\ encodings_file' = encodings_file
          ELSE /\ \E l \in Listings(dataset) : BuiltFrom(l)'
               /\ ~dataset.exists =>
                     known_face_names' = <<>> /\ known_face_encodings' = <<>>]_vars

\* the snapshot could not be read and the gallery was rebuilt from the
\* directory (the write of the new snapshot failed)
C17_Witness ==
    /\ pc = "done" /\ ret.op = "initialize_system"
    /\ encodings_file.state = "unreadable"
    /\ known_face_names # <<>>
    /\ \E l \in Listings(dataset) : BuiltFrom(l)

(***************************************************************************)
(* Properties of persistence failures (specification Spec).                *)
(***************************************************************************)
\* C19: when upload_file reports success, the rows of the roster were added
\* to the attendance file, and a gallery that this upload rebuilt with at
\* least one entry is in the snapshot file: no failed write goes with a
\* success message.
C19_NoSilentWriteFailure ==
    [][(ImageUploaded /\ flash' = "success") =>
          /\ Len(attendance_file') = Len(attendance_file) + Len(attendance_results'.results)
          /\ (last_known_images.set /\ last_known_images' # last_known_images
                 /\ known_face_names' # <<>>)
              => encodings_file' = [state |-> "pickled",
                                    encodings |-> known_face_encodings',
                                    names |-> known_face_names']]_vars

(***************************************************************************)
(* Properties of the status calls (specification Spec).                    *)
(***************************************************************************)
\* C20: in every state, the freshly constructed system included,
\* get_system_status reports as total_students the number of gallery names
\* and encodings_loaded exactly when the gallery has an embedding, and
\* get_known_students returns the gallery names in gallery order.
C20_StatusReflectsGallery ==
    (pc = "done" /\ ret.op = "test_system") =>
        /\ ret.value.system_status.total_students = Len(known_face_names)
        /\ ret.value.system_status.encodings_loaded <=> (known_face_encodings # <<>>)
        /\ ret.value.known_students = known_face_names

\* the status of a system on which nothing was loaded yet
C20_Witness ==
    /\ pc = "done" /\ ret.op = "test_system"
    /\ ~loaded_images.set
    /\ known_face_names = <<>>
    /\ ret.value.system_status.total_students = 0
    /\ ~ret.value.system_status.encodings_loaded
    /\ ret.value.known_students = <<>>

(***************************************************************************)
(* Properties of concurrent uploads (specification SpecConcurrent).        *)
(***************************************************************************)
\* process_class_photo takes a step, reading the gallery as it is
ReadsGallery == pc # "returned" /\ pc' # pc

\* create_encodings has emptied the gallery and not yet appended the last
\* name
RebuildUnderWay == rebuild.at \in {"reset_names", "append_encoding", "append_name"}

\* C18: while one upload rebuilds the gallery, process_class_photo of the
\* other never reads a gallery that is emptied or partly refilled, nor one
\* whose names and embeddings differ in length.
C18_ConsistentGallery ==
    [][ReadsGallery =>
          /\ ~RebuildUnderWay
          /\ Len(known_face_names) = Len(known_face_encodings)]_vars

(***************************************************************************)
(* Properties of the reports (specification SpecReport).                   *)
(***************************************************************************)
\* the attendance data given to the report
AttendanceData == attendance_results.results

\* C21: for non-empty attendance data, the summary report is non-empty with
\* total_students the number of records and present_count, absent_count,
\* unknown_count the numbers of records of that status, and the CSV text is
\* the header row followed by one row per record, in input order.
C21_ReportsCountRecords ==
    (pc = "done" /\ AttendanceData # <<>>) =>
        /\ ret.op = "generate_summary_report" =>
              /\ ret.value # <<>>
              /\ ret.value.total_students = Len(AttendanceData)
              /\ \A s \in {"Present", "Absent", "Unknown"} :
                    LET n == Len(WithStatus(AttendanceData, s))
                    IN  IF s = "Present" THEN ret.value.present_count = n
                        ELSE IF s = "Absent" THEN ret.value.absent_count = n
                        ELSE ret.value.unknown_count = n
        /\ ret.op = "generate_csv" =>
              /\ ret.value.csv # <<>>
              /\ Len(ret.value.csv) = Len(AttendanceData) + 1
              /\ ret.value.csv[1] = <<"Date", "Student Name", "Status", "Confidence",
                                      "Generated At">>
              /\ \A k \in 1..Len(AttendanceData) :
                    /\ ret.value.csv[k + 1][1] = ret.value.date
                    /\ ret.value.csv[k + 1][2] = AttendanceData[k].name
                    /\ ret.value.csv[k + 1][3] = AttendanceData[k].status

\* the summary of data with a student present, a student absent and an
\* unknown person
C21_Witness ==
    /\ pc = "done" /\ ret.op = "generate_summary_report"
    /\ Len(AttendanceData) = 3
    /\ ret.value.total_students = 3
    /\ ret.value.present_count = 1
    /\ ret.value.absent_count = 1
    /\ ret.value.unknown_count = 1

(***************************************************************************)
(* Properties of sequences of calls (specification SpecCalls).             *)
(***************************************************************************)
\* C22: after any sequence of calls made one at a time, the names and the
\* embeddings of the gallery have the same length, and each position holds
\* the name and the first embedding of one reference image.
C22_ParallelLists ==
    /\ Len(known_face_names) = Len(known_face_encodings)
    /\ \A i \in 1..Len(known_face_names) :
          \E f \in FileUniverse :
              /\ YieldsEmbedding(f)
              /\ known_face_names[i] = NameOfFile(f.name)
              /\ known_face_encodings[i] = f.faces[1]

\* a gallery of two images, rebuilt by a check, after a reconciliation
C22_Witness ==
    /\ pc = "returned"
    /\ ~attendance_results.none
    /\ Len(known_face_names) = 2
    /\ last_known_images.set
    /\ \E f \in dataset.files : f.faces = <<>>

\* a step in which process_class_photo was called and returned
PhotoProcessed == pc = "idle" /\ pc' = "returned"

\* a step in which the caller changed the list from get_known_students
ListModified ==
    /\ pc = "done" /\ ret.op = "get_known_students"
    /\ ret'.op = "get_known_students" /\ ret'.value.list # ret.value.list

\* C23: process_class_photo, with a roster or None as its result, leaves
\* the gallery, the snapshot file and the remembered file set as they were,
\* and changing the list returned by get_known_students leaves the gallery
\* as it was.
C23_GalleryUntouched ==
    [][/\ PhotoProcessed =>
            /\ known_face_names' = known_face_names
            /\ known_face_encodings' = known_face_encodings
            /\ encodings_file' = encodings_file
            /\ last_known_images' = last_known_images
       /\ ListModified =>
            /\ known_face_names' = known_face_names
            /\ known_face_encodings' = known_face_encodings]_vars

\* None was returned for a photo without faces while the gallery, the
\* snapshot and the remembered set are all in place
C23_Witness ==
    /\ pc = "returned"
    /\ attendance_results.none
    /\ photo.readable /\ photo.faces = <<>>
    /\ known_face_names # <<>>
    /\ encodings_file.state = "pickled"
    /\ last_known_images.set

(***************************************************************************)
(* Properties of the attendance store (specification SpecStore).           *)
(***************************************************************************)
\* the rows of the file saved under date d, as records
SavedUnder(d) ==
    LET OfDate(r) == r.date = d
        rows == SelectSeq(attendance_file, OfDate)
    IN  [k \in 1..Len(rows) |->
            [name |-> rows[k].name, status |-> rows[k].status,
             confidence |-> rows[k].confidence]]

\* C24: get_attendance_by_date(d) returns one record for every row saved
\* under d, with the name, status and confidence of the row, the Present
\* records first, then the Absent, then the Unknown, each group in the
\* order of the file.
C24_SavedRowsReadBack ==
    (pc = "done" /\ ret.op = "get_attendance_by_date") =>
        LET saved == SavedUnder(ret.value.date)
            list == ret.value.list
        IN  /\ Len(list) = Len(saved)
            /\ \A s \in {"Present", "Absent", "Unknown"} :
                  WithStatus(list, s) = WithStatus(saved, s)
            /\ \A i, j \in 1..Len(list) :
                  (i < j) =>
                     \/ list[i].status = list[j].status
                     \/ list[i].status = "Present"
                     \/ list[i].status = "Absent" /\ list[j].status = "Unknown"

\* a call of op made in this step
StoreStep(op) == pc = "idle" /\ pc' = "done" /\ ret'.op = op

\* C26: save_attendance(d, roster) leaves the rows the file had before the
\* call unchanged and in their order, appending one row per record of the
\* roster when it returns True; delete_attendance_date(d), when it returns
\* True, leaves exactly the rows of the other dates, unchanged and in order.
C26_OtherDatesIntact ==
    [][ /\ StoreStep("save_attendance") =>
             LET n == Len(attendance_file)
                 added == IF ret'.value.ok THEN Len(ret'.value.attendance_results) ELSE 0
             IN  /\ Len(attendance_file') = n + added
                 /\ SubSeq(attendance_file', 1, n) = attendance_file
                 /\ \A k \in 1..added : attendance_file'[n + k].date = ret'.value.date
        /\ (StoreStep("delete_attendance_date") /\ ret'.value.ok) =>
             LET OtherDate(r) == r.date # ret'.value.date
             IN  attendance_file' = SelectSeq(attendance_file, OtherDate)
      ]_vars

(***************************************************************************)
(* Detections that yield no record (specification SpecRoster).             *)
(***************************************************************************)
\* the records of the roster that come from a detection at box loc
RecordsAt(loc) == {k \in 1..Len(Roster) : Roster[k].face_location = loc}

====
